---- MODULE Spec2Model ----
(***************************************************************************)
(* Model of server.py: the asynchronous upload job lifecycle.              *)
(*                                                                         *)
(* Two kinds of execution unit exist.  The request handlers upload_file    *)
(* and get_upload_status are coroutines without an await in their bodies,  *)
(* so they run one at a time on the event loop (variable h).  Every        *)
(* background task upload_to_seedr_in_background is a plain function, run  *)
(* in a thread after the response of its request was produced, so the      *)
(* workers interleave statement by statement with each other and with the  *)
(* handlers (variable wpc).                                                *)
(*                                                                         *)
(* The file system is modelled by what the calls do to it: open(.., "w")   *)
(* creates or truncates the file, json.dump then writes the chunks of the  *)
(* document, and either call may raise.                                    *)
(***************************************************************************)
EXTENDS Integers, Sequences, FiniteSets, TLC

\* ------------------------------------------------------------------ bounds
MaxJobs == 2
MaxFaults == 2

\* the inputs of the environment
Filenames == {"a.bin"}
Payloads == {"r1", "r2"}
Exceptions == {"ProviderError", "Timeout"}

\* the uuids a run can draw; one not drawn yet is the id of no job
FileIds == 1..MaxJobs

VARIABLES
    nextId,     \* number of uuid4() values drawn so far
    h,          \* the request handler running on the event loop
    resp,       \* the HTTP response the last step produced, if any
    statusDir,  \* STATUS_DIR: file_id -> content of <file_id>.json (chunks)
    tmpFiles,   \* the staged files that exist under /tmp
    wpc,        \* position of the background task of each job
    targ,       \* the tmp_path argument of the background task
    result,     \* the worker's local `result`
    exc,        \* the exception the worker's except clause caught
    log,        \* what logger.error wrote: <<file_id, exception>>
    hist,       \* per job, the statuses of the fully written records, in order
    calls,      \* per job, the number of seedr.upload_file calls on its file
    faults,     \* per job, the local I/O calls that raised
    nfaults,    \* number of local I/O faults injected so far
    accepted,   \* the file ids returned to a client with a 202
    writes,     \* per job, the number of write_status calls of its worker
    dcall       \* the delete_item call of the last step, if any: its inputs
                \* and the remote delete calls it made

vars == <<nextId, h, resp, statusDir, tmpFiles, wpc, targ, result, exc, log,
          hist, calls, faults, nfaults, accepted, writes, dcall>>

\* ------------------------------------------------------------ pure helpers
\* uuid.uuid4(): a value no earlier call returned
uuid4_repeating(n) == 1
uuid4(n) == n + 1

\* str(file_id)
str(id) == ToString(id)

\* f"/tmp/{file_id}-{file.filename}"
tmp_path_without_id(id, name) == <<"/tmp/", 0, "-", name>>
tmp_path_of(id, name) == <<"/tmp/", id, "-", name>>

\* the dicts handed to write_status
PendingRecord == [status |-> "pending"]
ProcessingRecord == [status |-> "processing"]
CompletedRecordNoResult(r) == [status |-> "completed"]
CompletedRecord(r) == [status |-> "completed", result |-> r]

FailedRecordLeaky(e) == [status |-> "failed", error |-> e]
FailedRecord(e) == [status |-> "failed", error |-> "Upload process failed."]

\* json.dump: the chunks it writes for a flat dict, keys in insertion order
JsonDump(d) ==
    <<"{">>
    \o (IF "status" \in DOMAIN d THEN <<"status", d.status>> ELSE <<>>)
    \o (IF "result" \in DOMAIN d THEN <<"result", d.result>> ELSE <<>>)
    \o (IF "error" \in DOMAIN d THEN <<"error", d.error>> ELSE <<>>)
    \o (IF "file_id" \in DOMAIN d THEN <<"file_id", d.file_id>> ELSE <<>>)
    \o (IF "message" \in DOMAIN d THEN <<"message", d.message>> ELSE <<>>)
    \o <<"}">>

\* json.load succeeds on a complete document only
JsonValid(t) ==
    /\ Len(t) >= 2
    /\ Len(t) % 2 = 0
    /\ t[1] = "{"
    /\ t[Len(t)] = "}"

\* json.load: the dict of a complete document
JsonLoad(t) ==
    LET n == (Len(t) - 2) \div 2
        keys == {t[2 * i] : i \in 1..n}
    IN  [k \in keys |-> t[(CHOOSE i \in 1..n : t[2 * i] = k) * 2 + 1]]

\* what a write that raised in json.dump or in the close leaves in the file:
\* a proper prefix of the document.  No reader tells two proper prefixes apart
\* (json.load rejects each), so the shortest and the longest stand for all.
PartialDumps(d) == {SubSeq(JsonDump(d), 1, n) : n \in {0, Len(JsonDump(d)) - 1}}

\* open(path, "w"): create the file, or truncate it
OpenW(dir, id) == (id :> <<>>) @@ dir

\* open(status_path, "r"): the directory stays as it is
OpenRTruncating(dir, id) == OpenW(dir, id)
OpenR(dir, id) == dir

\* os.path.exists(status_path)
StatusExists(id) == id \in DOMAIN statusDir

\* the status a reader finds persisted for a job
PersistedStatus(id) ==
    IF ~StatusExists(id) THEN "absent"
    ELSE IF ~JsonValid(statusDir[id]) THEN "unreadable"
    ELSE JsonLoad(statusDir[id]).status

Terminal(s) == s \in {"completed", "failed"}

CanFault == nfaults < MaxFaults

\* ------------------------------------------------------------------- Init
NoResp == [op |-> "none", id |-> 0, code |-> 0, body |-> <<>>]
Idle == [pc |-> "idle", id |-> 0, name |-> ""]
NoDelete == [param |-> "none", item_type |-> "none", item_id |-> 0, calls |-> <<>>]

Init ==
    /\ nextId = 0
    /\ h = Idle
    /\ resp = NoResp
    /\ statusDir = <<>>
    /\ tmpFiles = {}
    /\ wpc = [j \in FileIds |-> "none"]
    /\ targ = [j \in FileIds |-> <<>>]
    /\ result = [j \in FileIds |-> "none"]
    /\ exc = [j \in FileIds |-> "none"]
    /\ log = {}
    /\ hist = [j \in FileIds |-> <<>>]
    /\ calls = [j \in FileIds |-> 0]
    /\ faults = [j \in FileIds |-> {}]
    /\ nfaults = 0
    /\ accepted = {}
    /\ writes = [j \in FileIds |-> 0]
    /\ dcall = NoDelete

\* an I/O call made on behalf of job id raises
Fault(id, kind) ==
    /\ CanFault
    /\ faults' = [faults EXCEPT ![id] = @ \cup {kind}]
    /\ nfaults' = nfaults + 1

NoFault == UNCHANGED <<faults, nfaults>>

\* ------------------------------------------------- responses of the handlers
Accepted202(id) ==
    [op |-> "upload", id |-> id, code |-> 202,
     body |-> JsonDump([file_id |-> str(id)])]

\* generic_exception_handler
Error500(op, id) ==
    [op |-> op, id |-> id, code |-> 500,
     body |-> JsonDump([message |-> "An internal server error occurred."])]

NotFound404(id) ==
    [op |-> "status", id |-> id, code |-> 404,
     body |-> JsonDump([error |-> "File not found"])]

Status200(id, d) ==
    [op |-> "status", id |-> id, code |-> 200, body |-> JsonDump(d)]

\* ------------------------------------------------------------- upload_file
\* background_tasks.add_task: the task is kept with the request, not started
add_task_eager(w, id) == [w EXCEPT ![id] = "ready"]
add_task(w, id) == [w EXCEPT ![id] = "queued"]

\* the response carries the tasks: they start once it has been produced
RunBackground(w, id) == [w EXCEPT ![id] = IF @ = "queued" THEN "ready" ELSE @]

\* the handler raised: no response object, so its tasks are never run
DropBackground(w, id) == [w EXCEPT ![id] = IF @ = "queued" THEN "dropped" ELSE @]

\* where upload_file continues after the with-block of lines 91-92
AfterStageSwallow(ok, id, name) == [pc |-> "add_task", id |-> id, name |-> name]
AfterStage(ok, id, name) ==
    IF ok THEN [pc |-> "add_task", id |-> id, name |-> name] ELSE Idle

\* lines 88-92: draw the id, name the temp file, copy the upload into it
upload_file_stage ==
    /\ h.pc = "idle"
    /\ nextId < MaxJobs
    /\ \E name \in Filenames :
        LET id == uuid4(nextId)
            path == tmp_path_of(id, name)
        IN  /\ nextId' = nextId + 1
            /\ \/ /\ tmpFiles' = tmpFiles \cup {path}
                   /\ h' = AfterStage(TRUE, id, name)
                   /\ NoFault
                   /\ resp' = NoResp
                \/ /\ Fault(id, "stage")
                   \* open raised (no file), or the copy raised (a partial file)
                   /\ tmpFiles' \in {tmpFiles, tmpFiles \cup {path}}
                   /\ h' = AfterStage(FALSE, id, name)
                   /\ resp' = IF h'.pc = "idle" THEN Error500("upload", id) ELSE NoResp
    /\ dcall' = NoDelete
    /\ UNCHANGED <<statusDir, wpc, targ, result, exc, log, hist, calls, accepted, writes>>

\* line 94
upload_file_add_task ==
    /\ h.pc = "add_task"
    /\ wpc' = add_task(wpc, h.id)
    /\ targ' = [targ EXCEPT ![h.id] = tmp_path_of(h.id, h.name)]
    /\ h' = [h EXCEPT !.pc = "write_open"]
    /\ resp' = NoResp
    /\ dcall' = NoDelete
    /\ UNCHANGED <<nextId, statusDir, tmpFiles, result, exc, log, hist,
                   calls, faults, nfaults, accepted, writes>>

\* line 95, write_status line 53: open(.., "w")
upload_file_write_open ==
    /\ h.pc = "write_open"
    /\ \/ /\ statusDir' = OpenW(statusDir, h.id)
          /\ h' = [h EXCEPT !.pc = "write_dump"]
          /\ NoFault
          /\ resp' = NoResp
          /\ UNCHANGED wpc
       \/ /\ Fault(h.id, "pending_write")
          /\ h' = Idle
          /\ resp' = Error500("upload", h.id)
          /\ wpc' = DropBackground(wpc, h.id)
          /\ UNCHANGED statusDir
    /\ dcall' = NoDelete
    /\ UNCHANGED <<nextId, tmpFiles, targ, result, exc, log, hist, calls, accepted, writes>>

\* line 95, write_status line 54: json.dump and the close of the file
upload_file_write_dump ==
    /\ h.pc = "write_dump"
    /\ \/ /\ statusDir' = [statusDir EXCEPT ![h.id] = JsonDump(PendingRecord)]
          /\ hist' = [hist EXCEPT ![h.id] = Append(@, PendingRecord.status)]
          /\ h' = [h EXCEPT !.pc = "return"]
          /\ NoFault
          /\ resp' = NoResp
          /\ UNCHANGED wpc
       \/ /\ Fault(h.id, "pending_write")
          /\ \E t \in PartialDumps(PendingRecord) :
                statusDir' = [statusDir EXCEPT ![h.id] = t]
          /\ h' = Idle
          /\ resp' = Error500("upload", h.id)
          /\ wpc' = DropBackground(wpc, h.id)
          /\ UNCHANGED hist
    /\ dcall' = NoDelete
    /\ UNCHANGED <<nextId, tmpFiles, targ, result, exc, log, calls, accepted, writes>>

\* line 97: the 202 response; its background tasks start after it
upload_file_return ==
    /\ h.pc = "return"
    /\ resp' = Accepted202(h.id)
    /\ accepted' = accepted \cup {h.id}
    /\ wpc' = RunBackground(wpc, h.id)
    /\ h' = Idle
    /\ dcall' = NoDelete
    /\ UNCHANGED <<nextId, statusDir, tmpFiles, targ, result, exc, log, hist,
                   calls, faults, nfaults, writes>>

\* ------------------------------------------- read_status, get_upload_status
\* lines 56-62 and 104-107; json.load raising reaches generic_exception_handler
StatusResponse(id) ==
    IF ~StatusExists(id) THEN NotFound404(id)
    ELSE IF ~JsonValid(statusDir[id]) THEN Error500("status", id)
    ELSE IF DOMAIN JsonLoad(statusDir[id]) = {} THEN NotFound404(id)
    ELSE Status200(id, JsonLoad(statusDir[id]))

get_upload_status ==
    /\ h.pc = "idle"
    /\ \E id \in FileIds :
        /\ resp' = StatusResponse(id)
        /\ statusDir' = IF StatusExists(id) THEN OpenR(statusDir, id) ELSE statusDir
    /\ dcall' = NoDelete
    /\ UNCHANGED <<nextId, h, tmpFiles, wpc, targ, result, exc, log,
                   hist, calls, faults, nfaults, accepted, writes>>

\* ------------------------------------------------------------- delete_item
ItemIds == {1, 2}
ItemTypeParams == {"absent", "file", "folder", "bogus", ""}

\* line 137: item_type: str = "file"
ItemTypeOf(param) == IF param = "absent" THEN "file" ELSE param

\* lines 141-146: the remote delete calls delete_item makes
DeleteCallsElseFile(item_type, item_id) ==
    IF item_type = "folder" THEN <<<<"delete_folder", item_id>>>>
    ELSE <<<<"delete_file", item_id>>>>
DeleteCalls(item_type, item_id) ==
    IF item_type = "file" THEN <<<<"delete_file", item_id>>>>
    ELSE IF item_type = "folder" THEN <<<<"delete_folder", item_id>>>>
    ELSE <<>>

BadRequest400(id) ==
    [op |-> "delete", id |-> id, code |-> 400,
     body |-> JsonDump([error |-> "Invalid item_type. Must be 'file' or 'folder'."])]

Deleted200(id, r) ==
    [op |-> "delete", id |-> id, code |-> 200, body |-> JsonDump([result |-> r])]

\* lines 136-147; a remote call that raises reaches generic_exception_handler
delete_item ==
    /\ h.pc = "idle"
    /\ \E item_id \in ItemIds, param \in ItemTypeParams :
        /\ dcall' = [param |-> param, item_type |-> ItemTypeOf(param),
                     item_id |-> item_id,
                     calls |-> DeleteCalls(ItemTypeOf(param), item_id)]
        /\ IF dcall'.calls = <<>>
           THEN resp' = BadRequest400(item_id)
           ELSE \/ resp' = Deleted200(item_id, "deleted")
                \/ resp' = Error500("delete", item_id)
    /\ UNCHANGED <<nextId, h, statusDir, tmpFiles, wpc, targ, result, exc, log,
                   hist, calls, faults, nfaults, accepted, writes>>

\* ------------------------------------------ upload_to_seedr_in_background
\* where control goes inside the try / except / finally of lines 68-77
OnTryRaiseRetry == "upload"
OnTryRaise == "except"

AfterTryFallThrough == "except"
AfterTry == "finally"

AfterExcept == "finally"

OnExceptRaiseNoFinally == "crashed"
OnExceptRaise == "finally_exc"

\* the exception object a failing open / write / close raises
OSError == "OSError"

\* an exception raised in the try block is bound to `e` by line 72
Catch(j, e) ==
    /\ exc' = [exc EXCEPT ![j] = e]
    /\ wpc' = [wpc EXCEPT ![j] = OnTryRaise]

\* line 69, write_status line 53
worker_processing_open(j) ==
    /\ wpc[j] = "ready"
    /\ \/ /\ statusDir' = OpenW(statusDir, j)
          /\ wpc' = [wpc EXCEPT ![j] = "processing_dump"]
          /\ NoFault
          /\ UNCHANGED exc
       \/ /\ Fault(j, "write")
          /\ Catch(j, OSError)
          /\ UNCHANGED statusDir
    /\ resp' = NoResp
    /\ writes' = [writes EXCEPT ![j] = @ + 1]
    /\ dcall' = NoDelete
    /\ UNCHANGED <<nextId, h, tmpFiles, targ, result, log, hist, calls, accepted>>

\* line 69, write_status line 54
worker_processing_dump(j) ==
    /\ wpc[j] = "processing_dump"
    /\ \/ /\ statusDir' = [statusDir EXCEPT ![j] = JsonDump(ProcessingRecord)]
          /\ hist' = [hist EXCEPT ![j] = Append(@, ProcessingRecord.status)]
          /\ wpc' = [wpc EXCEPT ![j] = "upload"]
          /\ NoFault
          /\ UNCHANGED exc
       \/ /\ Fault(j, "write")
          /\ \E t \in PartialDumps(ProcessingRecord) :
                statusDir' = [statusDir EXCEPT ![j] = t]
          /\ Catch(j, OSError)
          /\ UNCHANGED hist
    /\ resp' = NoResp
    /\ dcall' = NoDelete
    /\ UNCHANGED <<nextId, h, tmpFiles, targ, result, log, calls, accepted, writes>>

\* line 70: the remote call returns a payload or raises
worker_upload(j) ==
    /\ wpc[j] = "upload"
    /\ calls' = [calls EXCEPT ![j] = @ + 1]
    /\ \/ \E r \in Payloads :
            /\ result' = [result EXCEPT ![j] = r]
            /\ wpc' = [wpc EXCEPT ![j] = "completed_open"]
            /\ UNCHANGED exc
       \/ \E e \in Exceptions :
            /\ Catch(j, e)
            /\ UNCHANGED result
    /\ resp' = NoResp
    /\ dcall' = NoDelete
    /\ UNCHANGED <<nextId, h, statusDir, tmpFiles, targ, log, hist, faults,
                   nfaults, accepted, writes>>

\* line 71, write_status line 53
worker_completed_open(j) ==
    /\ wpc[j] = "completed_open"
    /\ \/ /\ statusDir' = OpenW(statusDir, j)
          /\ wpc' = [wpc EXCEPT ![j] = "completed_dump"]
          /\ NoFault
          /\ UNCHANGED exc
       \/ /\ Fault(j, "write")
          /\ Catch(j, OSError)
          /\ UNCHANGED statusDir
    /\ resp' = NoResp
    /\ writes' = [writes EXCEPT ![j] = @ + 1]
    /\ dcall' = NoDelete
    /\ UNCHANGED <<nextId, h, tmpFiles, targ, result, log, hist, calls, accepted>>

\* line 71, write_status line 54
worker_completed_dump(j) ==
    /\ wpc[j] = "completed_dump"
    /\ \/ /\ statusDir' = [statusDir EXCEPT ![j] = JsonDump(CompletedRecord(result[j]))]
          /\ hist' = [hist EXCEPT ![j] = Append(@, CompletedRecord(result[j]).status)]
          /\ wpc' = [wpc EXCEPT ![j] = AfterTry]
          /\ NoFault
          /\ UNCHANGED exc
       \/ /\ Fault(j, "write")
          /\ \E t \in PartialDumps(CompletedRecord(result[j])) :
                statusDir' = [statusDir EXCEPT ![j] = t]
          /\ Catch(j, OSError)
          /\ UNCHANGED hist
    /\ resp' = NoResp
    /\ dcall' = NoDelete
    /\ UNCHANGED <<nextId, h, tmpFiles, targ, result, log, calls, accepted, writes>>

\* lines 73-74: logger.error, then write_status line 53
worker_except_open(j) ==
    /\ wpc[j] = "except"
    /\ log' = log \cup {<<j, exc[j]>>}
    /\ \/ /\ statusDir' = OpenW(statusDir, j)
          /\ wpc' = [wpc EXCEPT ![j] = "failed_dump"]
          /\ NoFault
       \/ /\ Fault(j, "write")
          /\ wpc' = [wpc EXCEPT ![j] = OnExceptRaise]
          /\ UNCHANGED statusDir
    /\ resp' = NoResp
    /\ writes' = [writes EXCEPT ![j] = @ + 1]
    /\ dcall' = NoDelete
    /\ UNCHANGED <<nextId, h, tmpFiles, targ, result, exc, hist, calls, accepted>>

\* line 74, write_status line 54
worker_failed_dump(j) ==
    /\ wpc[j] = "failed_dump"
    /\ \/ /\ statusDir' = [statusDir EXCEPT ![j] = JsonDump(FailedRecord(exc[j]))]
          /\ hist' = [hist EXCEPT ![j] = Append(@, FailedRecord(exc[j]).status)]
          /\ wpc' = [wpc EXCEPT ![j] = AfterExcept]
          /\ NoFault
       \/ /\ Fault(j, "write")
          /\ \E t \in PartialDumps(FailedRecord(exc[j])) :
                statusDir' = [statusDir EXCEPT ![j] = t]
          /\ wpc' = [wpc EXCEPT ![j] = OnExceptRaise]
          /\ UNCHANGED hist
    /\ resp' = NoResp
    /\ dcall' = NoDelete
    /\ UNCHANGED <<nextId, h, tmpFiles, targ, result, exc, log, calls, accepted, writes>>

\* lines 75-77: the finally clause; an exception of the except clause
\* propagates after it
worker_finally(j) ==
    /\ wpc[j] \in {"finally", "finally_exc"}
    /\ LET exit == IF wpc[j] = "finally" THEN "done" ELSE "crashed"
       IN  \/ /\ targ[j] \notin tmpFiles
              /\ wpc' = [wpc EXCEPT ![j] = exit]
              /\ NoFault
              /\ UNCHANGED tmpFiles
           \/ /\ targ[j] \in tmpFiles
              /\ tmpFiles' = tmpFiles \ {targ[j]}
              /\ wpc' = [wpc EXCEPT ![j] = exit]
              /\ NoFault
           \/ /\ targ[j] \in tmpFiles
              /\ Fault(j, "remove")
              /\ wpc' = [wpc EXCEPT ![j] = "crashed"]
              /\ UNCHANGED tmpFiles
    /\ resp' = NoResp
    /\ dcall' = NoDelete
    /\ UNCHANGED <<nextId, h, statusDir, targ, result, exc, log, hist, calls,
                   accepted, writes>>

upload_to_seedr_in_background ==
    \E j \in FileIds :
        \/ worker_processing_open(j)
        \/ worker_processing_dump(j)
        \/ worker_upload(j)
        \/ worker_completed_open(j)
        \/ worker_completed_dump(j)
        \/ worker_except_open(j)
        \/ worker_failed_dump(j)
        \/ worker_finally(j)

upload_file ==
    \/ upload_file_stage
    \/ upload_file_add_task
    \/ upload_file_write_open
    \/ upload_file_write_dump
    \/ upload_file_return

Next ==
    \/ upload_file
    \/ get_upload_status
    \/ upload_to_seedr_in_background

\* the upload job lifecycle: dispatcher, status query and background workers
Spec == Init /\ [][Next]_vars

\* the event loop alone: the request handlers, delete_item among them, which
\* neither reads nor writes anything a background worker touches
HandlerNext ==
    \/ upload_file
    \/ get_upload_status
    \/ delete_item

HandlerSpec == Init /\ [][HandlerNext]_vars

\* ------------------------------------------------------------------ claims
WorkerExited(j) == wpc[j] \in {"done", "crashed"}
WorkerStarted(j) == wpc[j] \notin {"none", "queued", "dropped"}
RemoteRaised(j) == exc[j] \in Exceptions

\* the order of the state machine of the status field
Rank(st) == CASE st = "pending" -> 1 [] st = "processing" -> 2 [] OTHER -> 3

\* the record the spec describes for a failed job
GenericFailed == [status |-> "failed", error |-> "Upload process failed."]

\* C1: once the persisted record of a job is completed or failed, no later
\* step changes the record file, and the statuses written for a job only
\* move forward (pending, processing, terminal), on every path of the worker
\* including those on which a status write raises.
C1_TerminalIsFinal ==
    /\ [](\A j \in FileIds : \A i \in 1..(Len(hist[j]) - 1) :
            Rank(hist[j][i]) < Rank(hist[j][i + 1]))
    /\ [][\A j \in FileIds :
            Terminal(PersistedStatus(j)) =>
                (j \in DOMAIN statusDir' /\ statusDir'[j] = statusDir[j])]_vars

\* C1 witness: the completed write raised, the except clause wrote failed,
\* and the worker returned with the record still failed.
C1_Witness ==
    \E j \in FileIds :
        /\ wpc[j] = "done"
        /\ result[j] \in Payloads
        /\ "write" \in faults[j]
        /\ PersistedStatus(j) = "failed"

\* C2: no transition skips processing: every terminal status is written
\* right after a fully written processing record, never over pending.
C2_NoSkip ==
    \A j \in FileIds : \A i \in 1..Len(hist[j]) :
        Terminal(hist[j][i]) => (i > 1 /\ hist[j][i - 1] = "processing")

\* C3: an accepted job whose worker has run to its end has a completed or
\* failed record, and whenever the status read for an accepted job is
\* completed or failed, the records written for it were pending, then
\* processing, then that terminal status.
C3_ReachesTerminalInOrder ==
    \A j \in accepted :
        /\ WorkerExited(j) => Terminal(PersistedStatus(j))
        /\ Terminal(PersistedStatus(j)) =>
              hist[j] = <<"pending", "processing", PersistedStatus(j)>>

\* C4: whenever the persisted status of a job is terminal, its staged
\* temporary file is gone.
C4_TerminalImpliesNoTempFile ==
    \A j \in FileIds : Terminal(PersistedStatus(j)) => targ[j] \notin tmpFiles

C6_OneRecordPendingFirst ==
    /\ [](\A j \in FileIds :
            /\ j \in accepted => StatusExists(j)
            /\ WorkerStarted(j) => (hist[j] # <<>> /\ hist[j][1] = "pending")
            /\ \A i \in 2..Len(hist[j]) : hist[j][i] # "pending")
    /\ [][\A j \in FileIds : StatusExists(j) => j \in DOMAIN statusDir']_vars

\* C6 witness: an accepted job whose worker has written after the dispatcher.
C6_Witness ==
    \E j \in accepted :
        /\ StatusExists(j)
        /\ Len(hist[j]) = 3
        /\ hist[j][1] = "pending"

\* C7: when staging fails, the request ends at once with a 500, and for the
\* id that was drawn no record file exists, no task is queued or run, and no
\* 202 is ever returned.
C7_StagingFailureCreatesNoJob ==
    /\ [](\A j \in FileIds :
            "stage" \in faults[j] =>
                /\ ~StatusExists(j)
                /\ hist[j] = <<>>
                /\ wpc[j] = "none"
                /\ calls[j] = 0
                /\ j \notin accepted)
    /\ [][\A j \in FileIds :
            ("stage" \in faults'[j] /\ "stage" \notin faults[j]) =>
                (resp' = Error500("upload", j) /\ h' = Idle)]_vars

\* C7 witness: the copy raised and left a partial file; the client got a 500.
C7_Witness ==
    \E j \in FileIds :
        /\ "stage" \in faults[j]
        /\ resp = Error500("upload", j)
        /\ \E name \in Filenames : tmp_path_of(j, name) \in tmpFiles

\* C8: a status query for an id not drawn yet answers 404, and a status
\* query for an id returned by upload_file answers 200 with a job record.
C8_QueryAnswers ==
    resp.op = "status" =>
        /\ resp.id > nextId => resp.code = 404
        /\ resp.id \in accepted =>
              /\ resp.code = 200
              /\ JsonValid(resp.body)
              /\ JsonLoad(resp.body).status
                    \in {"pending", "processing", "completed", "failed"}

\* C9: when upload_file produces its 202, the record of the job is pending,
\* its worker has not started and the remote upload was not called for it;
\* no step of the request handler calls the remote upload.
C9_RespondsBeforeWorker ==
    /\ [](resp.code = 202 =>
            /\ PersistedStatus(resp.id) = "pending"
            /\ wpc[resp.id] = "ready"
            /\ calls[resp.id] = 0)
    /\ [][h' # h => calls' = calls]_vars

\* C9 witness: a 202 is produced while the worker of an earlier job is in its
\* remote call.
C9_Witness ==
    /\ resp.code = 202
    /\ PersistedStatus(resp.id) = "pending"
    /\ \E k \in FileIds : k # resp.id /\ wpc[k] = "upload"

\* C10: after the remote call raised, nothing persisted for the job and no
\* status response holds the exception: with no local I/O fault the worker
\* leaves exactly the generic failed record and no staged file, so two
\* workers that differ in the exception alone leave identical records.
C10_FailureRecordIndependentOfException ==
    /\ \A j \in FileIds :
          RemoteRaised(j) =>
              /\ \A i \in 1..Len(statusDir[j]) : statusDir[j][i] \notin Exceptions
              /\ (WorkerExited(j) /\ faults[j] = {}) =>
                    /\ statusDir[j] = JsonDump(GenericFailed)
                    /\ targ[j] \notin tmpFiles
    /\ \A i \in 1..Len(resp.body) : resp.body[i] \notin Exceptions
    /\ \A j1, j2 \in FileIds :
          (/\ RemoteRaised(j1) /\ RemoteRaised(j2)
           /\ WorkerExited(j1) /\ WorkerExited(j2)
           /\ faults[j1] = {} /\ faults[j2] = {}) =>
              /\ statusDir[j1] = statusDir[j2]
              /\ (targ[j1] \in tmpFiles) = (targ[j2] \in tmpFiles)

\* C10 witness: two workers, one ProviderError and one Timeout, same record.
C10_Witness ==
    \E j1, j2 \in FileIds :
        /\ exc[j1] = "ProviderError" /\ exc[j2] = "Timeout"
        /\ wpc[j1] = "done" /\ wpc[j2] = "done"
        /\ faults[j1] = {} /\ faults[j2] = {}
        /\ statusDir[j1] = statusDir[j2]
        /\ PersistedStatus(j1) = "failed"

\* C11: every readable persisted record has a result field exactly when its
\* status is completed and an error field exactly when its status is failed;
\* pending and processing records carry neither, and no other field exists.
C11_FieldsMatchStatus ==
    \A j \in DOMAIN statusDir :
        JsonValid(statusDir[j]) =>
            LET d == JsonLoad(statusDir[j])
            IN  /\ DOMAIN d \subseteq {"status", "result", "error"}
                /\ d.status \in {"pending", "processing", "completed", "failed"}
                /\ ("result" \in DOMAIN d) <=> (d.status = "completed")
                /\ ("error" \in DOMAIN d) <=> (d.status = "failed")

\* C11 witness: a completed record with its result beside a failed record
\* with its error, the failed one written over a processing record.
C11_Witness ==
    \E j, k \in DOMAIN statusDir :
        /\ JsonValid(statusDir[j]) /\ JsonValid(statusDir[k])
        /\ JsonLoad(statusDir[j]) = [status |-> "completed", result |-> "r2"]
        /\ DOMAIN JsonLoad(statusDir[k]) = {"status", "error"}
        /\ hist[k] = <<"pending", "processing", "failed">>

\* C12: a persisted terminal record reflects the outcome of the remote call:
\* completed only when the call returned, with the returned payload as its
\* result, and failed only when the call did not return a payload.
C12_TerminalReflectsOutcome ==
    \A j \in DOMAIN statusDir :
        /\ PersistedStatus(j) = "completed" =>
              /\ ~RemoteRaised(j)
              /\ result[j] \in Payloads
              /\ JsonLoad(statusDir[j]).result = result[j]
        /\ PersistedStatus(j) = "failed" => result[j] \notin Payloads

\* C13: the jobs have distinct ids and distinct staged paths; a step of the
\* worker (or dispatcher) of one job writes no other job's record and removes
\* no other job's staged file; and a worker that met no local I/O fault ends
\* with a terminal record whatever happens to the other jobs.
C13_JobsAreIsolated ==
    /\ [](\A j, k \in FileIds :
            (j # k /\ targ[j] # <<>> /\ targ[k] # <<>>) => targ[j] # targ[k])
    /\ [](\A j \in FileIds :
            (WorkerExited(j) /\ faults[j] = {}) => Terminal(PersistedStatus(j)))
    /\ [][\A j \in FileIds :
            wpc'[j] # wpc[j] =>
                \A k \in FileIds \ {j} :
                    /\ (k \in DOMAIN statusDir) = (k \in DOMAIN statusDir')
                    /\ k \in DOMAIN statusDir => statusDir'[k] = statusDir[k]
                    /\ (targ[k] \in tmpFiles) => (targ[k] \in tmpFiles')]_vars

\* C13 witness: two workers have run concurrently to a terminal record each,
\* one of them with a local fault, and the staged file of the other, still
\* running its finally clause, is on disk.
C13_Witness ==
    \E j, k \in FileIds :
        /\ j # k
        /\ wpc[j] = "done" /\ faults[j] # {}
        /\ wpc[k] = "finally" /\ faults[k] = {}
        /\ Terminal(PersistedStatus(j)) /\ Terminal(PersistedStatus(k))
        /\ targ[j] \notin tmpFiles /\ targ[k] \in tmpFiles

\* C14: delete_item with an item_type other than file or folder answers 400
\* and makes no remote delete call; with file (given, or by default) it makes
\* exactly one delete_file call, with folder exactly one delete_folder call,
\* on its item.
C14_DeleteItemDispatch ==
    dcall # NoDelete =>
        /\ resp.op = "delete"
        /\ resp.id = dcall.item_id
        /\ dcall.param \notin {"absent", "file", "folder"} =>
              (resp.code = 400 /\ dcall.calls = <<>>)
        /\ dcall.param \in {"absent", "file"} =>
              /\ dcall.calls = <<<<"delete_file", dcall.item_id>>>>
              /\ resp.code \in {200, 500}
        /\ dcall.param = "folder" =>
              /\ dcall.calls = <<<<"delete_folder", dcall.item_id>>>>
              /\ resp.code \in {200, 500}

\* C14 witness: delete_item was called with item_type bogus while an upload
\* was being handled before and its job is accepted.
C14_Witness ==
    /\ dcall.param = "bogus"
    /\ dcall.calls = <<>>
    /\ resp.code = 400
    /\ accepted # {}

\* C15: a step that answers a status query changes no record file, no staged
\* file, no task and nothing else of the state, for a known or unknown id.
C15_StatusQueryIsPure ==
    [][resp'.op = "status" =>
         UNCHANGED <<nextId, h, statusDir, tmpFiles, wpc, targ, result, exc,
                     log, hist, calls, faults, nfaults, accepted, writes>>]_vars

\* C15 witness: a query for an id with no record answered 404, no record was
\* created, and the worker of another job is in its remote call.
C15_Witness ==
    /\ resp.op = "status"
    /\ resp.code = 404
    /\ ~StatusExists(resp.id)
    /\ \E k \in FileIds : wpc[k] = "upload" /\ StatusExists(k)

\* C16: the remote upload is called at most once for a job; after it raised
\* the worker is past the call for good, and, with no local I/O fault, ends
\* with the record failed.
C16_OneUploadAttempt ==
    \A j \in FileIds :
        /\ calls[j] <= 1
        /\ RemoteRaised(j) =>
              /\ calls[j] = 1
              /\ wpc[j] \in {"except", "failed_dump", "finally", "finally_exc",
                             "done", "crashed"}
        /\ (RemoteRaised(j) /\ WorkerExited(j) /\ faults[j] = {}) =>
              PersistedStatus(j) = "failed"

\* C16 witness: the remote call raised, one call was made, the job is failed.
C16_Witness ==
    \E j \in FileIds :
        /\ RemoteRaised(j)
        /\ wpc[j] = "done"
        /\ calls[j] = 1
        /\ PersistedStatus(j) = "failed"

\* the worker of job j is inside write_status, between open and json.dump
WorkerInsideWrite(j) ==
    wpc[j] \in {"processing_dump", "completed_dump", "failed_dump"}

\* C17: a status query for a dispatched job that runs while the worker is
\* inside write_status answers 200 with a full record of the job, the one
\* last written before this write; never an error and never not-found.
C17_RacingQuerySeesFullRecord ==
    (resp.op = "status" /\ resp.id \in accepted /\ WorkerInsideWrite(resp.id)) =>
        /\ resp.code = 200
        /\ JsonValid(resp.body)
        /\ JsonLoad(resp.body).status = hist[resp.id][Len(hist[resp.id])]

\* C18: while upload_file is at work for a job id (its pending write
\* included) the worker of that id has not started, so the writes of the two
\* never overlap; and a task is only ever queued for an id that has none.
C18_OneWriterPerRecord ==
    /\ [](\A j \in FileIds :
            (h.pc # "idle" /\ h.id = j) => wpc[j] \in {"none", "queued"})
    /\ [][\A j \in FileIds :
            (wpc'[j] = "queued" /\ wpc[j] # "queued") => wpc[j] = "none"]_vars

\* C18 witness: the dispatcher is inside the pending write of one job while
\* the worker of another job is inside a write of its own record.
C18_Witness ==
    \E j, k \in FileIds :
        /\ j # k
        /\ h.pc = "write_dump" /\ h.id = k
        /\ WorkerInsideWrite(j)

\* C19: a worker that has exited has issued exactly two write_status calls.
C19_ExactlyTwoWrites ==
    \A j \in FileIds : WorkerExited(j) => writes[j] = 2

\* C20: whenever upload_file is not running, every staged file that was handed
\* to a task still has that task scheduled or running to remove it.
C20_StagedFileHasWorker ==
    h.pc = "idle" =>
        \A j \in FileIds :
            targ[j] \in tmpFiles => (WorkerStarted(j) /\ ~WorkerExited(j))

====
